---------------------------- MODULE Spec2Model ----------------------------
(***************************************************************************)
(* A model of the CSV importer (src/src/main.rs, db.rs, currency.rs,       *)
(* domain.rs, config.rs).                                                  *)
(*                                                                         *)
(* Two specifications share the module:                                    *)
(*   Spec          the import process: main, import_directory,             *)
(*                 import_file, read_file, load_rows, load_new_rows,       *)
(*                 db::import/import_refs, insert_single_row and           *)
(*                 select_max_tx_for_account, against a PostgreSQL table;  *)
(*   SpecCurrency  the currency codec: Currency::from_str and its Display. *)
(*                                                                         *)
(* Texts are sequences of one-character strings.                           *)
(***************************************************************************)
EXTENDS Integers, Sequences, FiniteSets, TLC

(***************************************************************************)
(* Bounds of the model.                                                    *)
(***************************************************************************)
\* longest integer portion (in digits) of a generated currency text
MaxWholeLen == 4
\* longest fractional portion (in digits) of a generated currency text
MaxFracLen == 3

(***************************************************************************)
(* Currency codec (currency.rs).                                           *)
(***************************************************************************)
DigitChars == <<"0", "1", "2", "3", "4", "5", "6", "7", "8", "9">>

\* char::to_digit(10): Some(d) for an ASCII digit, None (-1 here) otherwise
to_digit(c) ==
    IF \E d \in 1..10 : DigitChars[d] = c
    THEN (CHOOSE d \in 1..10 : DigitChars[d] = c) - 1
    ELSE -1

\* char::is_numeric: the ASCII digits and the other Unicode numeric
\* characters, of which the superscript two stands for all
is_numeric(c) == to_digit(c) >= 0 \/ c = "^2"

\* `x as u8` for an i32 x: the low eight bits
AsU8(n) == n % 256

\* str::split_once("."): the position of the first decimal point, 0 if none
PointAt(from) ==
    IF \E i \in 1..Len(from) : from[i] = "."
    THEN CHOOSE i \in 1..Len(from) : from[i] = "." /\ \A j \in 1..(i-1) : from[j] # "."
    ELSE 0

\* the loop over whole_chars.chars().rev(): i runs from the last character
\* down to the first; acc is [negative, whole, magnitude]. The sums are i32
\* in the code and stay far below 2^31 for the texts of the model (at most
\* MaxWholeLen + 1 digits)
RECURSIVE ScanWhole(_, _, _)
ScanWhole(chars, i, acc) ==
    IF i = 0 THEN acc
    ELSE LET c == chars[i] IN
         IF c = "("
         THEN ScanWhole(chars, i - 1, [acc EXCEPT !.negative = TRUE])
         ELSE IF is_numeric(c) /\ to_digit(c) >= 0
         THEN ScanWhole(chars, i - 1,
                        [acc EXCEPT !.whole = acc.whole + to_digit(c) * acc.magnitude,
                                    !.magnitude = acc.magnitude * 10])
         ELSE ScanWhole(chars, i - 1, acc)

\* the loop over digit_chars.chars().rev(); acc is [digits, magnitude]
RECURSIVE ScanDigits(_, _, _)
ScanDigits(chars, i, acc) ==
    IF i = 0 THEN acc
    ELSE LET c == chars[i] IN
         IF is_numeric(c) /\ to_digit(c) >= 0
         THEN ScanDigits(chars, i - 1,
                         [acc EXCEPT !.digits = acc.digits + to_digit(c) * acc.magnitude,
                                     !.magnitude = acc.magnitude * 10])
         ELSE ScanDigits(chars, i - 1, acc)

\* str::replace(" ", "")
StripSpaces(s) == SelectSeq(s, LAMBDA c : c # " ")

\* Currency::zero()
zero == [ok |-> TRUE, whole |-> 0, digits |-> 0]

\* the sign step of from_str: `if negative { whole *= -1 }`
ApplySign(negative, whole) == IF negative THEN whole * (-1) ELSE whole

\* the narrowing of the scanned fraction: `digits: digits as u8`
NarrowDigits(digits) == AsU8(digits)

\* <Currency as FromStr>::from_str: Ok(Currency) is [ok |-> TRUE, whole, digits],
\* Err(ParseCurrencyError) is [ok |-> FALSE, ...]
from_str(from) ==
    LET p == PointAt(from) IN
    IF p > 0
    THEN LET whole_chars == SubSeq(from, 1, p - 1)
             digit_chars == SubSeq(from, p + 1, Len(from))
             w == ScanWhole(whole_chars, Len(whole_chars),
                            [negative |-> FALSE, whole |-> 0, magnitude |-> 1])
             d == ScanDigits(digit_chars, Len(digit_chars),
                             [digits |-> 0, magnitude |-> 1])
         IN  [ok |-> TRUE,
              whole |-> ApplySign(w.negative, w.whole),
              digits |-> NarrowDigits(d.digits)]
    ELSE IF StripSpaces(from) = <<"$", "-">>
    THEN zero
    ELSE [ok |-> FALSE, whole |-> 0, digits |-> 0]

\* the decimal digits of a natural number, most significant first
RECURSIVE NatToText(_)
NatToText(n) ==
    IF n < 10 THEN <<DigitChars[n + 1]>>
    ELSE NatToText(n \div 10) \o <<DigitChars[(n % 10) + 1]>>

\* "{}" of an i32
IntToText(n) == IF n < 0 THEN <<"-">> \o NatToText(-n) ELSE NatToText(n)

\* "{:02}" of a u8: at least two digits, zero padded
Pad02(n) == IF n < 10 THEN <<"0">> \o NatToText(n) ELSE NatToText(n)

\* <Currency as Display>::fmt: "{}.{:02}"
fmt(c) == IntToText(c.whole) \o <<".">> \o Pad02(c.digits)

(***************************************************************************)
(* Bounds and inputs of the import process.                                *)
(***************************************************************************)
\* longest file (in data rows) whose rows are chosen freely
MaxLen == 2
\* largest transaction ordinal of a freely chosen row, and of a row that is
\* in the table before the first run
MaxId == 2
\* most entries of a directory
MaxEntries == 2
\* the long files have just enough rows to need 2..MaxChunks chunks
MaxChunks == 3

\* `let chunk_size = 50;` in import_refs
chunk_size == 50

AccountSeq == <<"a1", "a2">>
Accounts == {AccountSeq[i] : i \in 1..Len(AccountSeq)}
Ids == 1..MaxId

\* an Amount cell that decodes, and one that does not (no decimal point)
GoodAmount == <<"$", "(", "1", "2", ".", "5", "0", ")">>
BadAmount == <<"1", "2">>
\* the amount text stored with the rows that are in the table at the start
OldAmount == <<"1", ".", "0", "0">>

\* a CSV data row, reduced to the cells the pipeline looks at; `valid` says
\* whether the other cells satisfy the constraints of the table (a row with
\* valid = FALSE is one whose INSERT the server rejects)
Row(a, i, amt, v) == [account |-> a, id |-> i, amount |-> amt, valid |-> v]
Rows == {Row(a, i, GoodAmount, TRUE) : a \in Accounts, i \in Ids}
            \cup {Row("a1", 1, BadAmount, TRUE), Row("a1", 1, GoodAmount, FALSE)}

ShortFiles == UNION {[1..n -> Rows] : n \in 0..MaxLen}
\* one account, ordinals 1..n, every row decodable
LongFile(n) == [i \in 1..n |-> Row("a1", i, GoodAmount, TRUE)]
LongFiles == {LongFile((c - 1) * chunk_size + 1) : c \in 2..MaxChunks}

\* the records of account a1 in two runs, the later ordinals first, around a
\* record of account a2; m is the largest ordinal below those of a1
InterleavedFile(m) == <<Row("a1", m + 2, GoodAmount, TRUE),
                        Row("a2", 1, GoodAmount, TRUE),
                        Row("a1", m + 1, GoodAmount, TRUE)>>
InterleavedFiles == {InterleavedFile(m) : m \in 1..MaxId}

\* a path: readable as CSV with these data rows, or not readable at all
Unreadable == [readable |-> FALSE, rows |-> <<>>]
Files == {[readable |-> TRUE, rows |-> s] : s \in ShortFiles \cup LongFiles \cup InterleavedFiles}
            \cup {Unreadable}
\* the entries of a directory: the empty file, the files of one row with
\* ordinal 1, and paths that cannot be read
DirFiles == {f \in Files : Len(f.rows) <= 1 /\ \A i \in 1..Len(f.rows) : f.rows[i].id = 1}

(***************************************************************************)
(* The table: its rows in the order of their insertion. Its schema         *)
(* (templates/init.sql) is not among the sources: the key is the one the   *)
(* specification names.                                                    *)
(***************************************************************************)
\* the natural key of a table row
NaturalKey(r) == <<r.account, r.tx_id>>

\* the rows of a table, of a pending insert list
RowsOf(t) == {t[i] : i \in 1..Len(t)}

\* the tables the first run may find: per account a, the ordinals 1..f[a]
RECURSIVE TableOf(_, _)
TableOf(f, n) ==
    IF n = 0 THEN <<>>
    ELSE TableOf(f, n - 1)
            \o [i \in 1..f[AccountSeq[n]] |->
                    [account |-> AccountSeq[n], tx_id |-> i, amount |-> OldAmount]]
InitTables == {TableOf(f, Len(AccountSeq)) : f \in [Accounts -> 0..MaxId]}

(***************************************************************************)
(* Record decoder (domain.rs, CsvRecord) and the casts of db.rs, main.rs.  *)
(***************************************************************************)
\* serde's deserialize::<CsvRecord> of one row: Ok(record) or Err; the
\* Amount cell goes through deserialize_money, i.e. Currency::from_str
Deserialize(row) ==
    LET c == from_str(row.amount) IN
    IF c.ok
    THEN [ok |-> TRUE, account |-> row.account, id |-> row.id,
          amount |-> [whole |-> c.whole, digits |-> c.digits], valid |-> row.valid]
    ELSE [ok |-> FALSE, account |-> row.account, id |-> row.id,
          amount |-> [whole |-> 0, digits |-> 0], valid |-> row.valid]

\* `r.id > max as u64` for a u64 id and an i32 max: a negative max becomes
\* a value of at least 2^63, above every id of the model
GreaterAsU64(id, m) == IF m < 0 THEN FALSE ELSE id > m

\* the row the INSERT of insert_single_row writes for a record: the id is
\* bound `as i32`, which keeps every id below 2^31 (all ids of the model),
\* the amount is bound as its Display text
TableRow(rec) == [account |-> rec.account, tx_id |-> rec.id,
                  amount |-> fmt(rec.amount)]

\* SELECT MAX(tx_id) ... WHERE account = $1: the rows it aggregates
AccountRows(t, a) == {r \in RowsOf(t) : r.account = a}
MaxTxId(t, a) == CHOOSE m \in {r.tx_id : r \in AccountRows(t, a)} :
                    \A r \in AccountRows(t, a) : r.tx_id <= m

\* records.chunks(chunk_size): the number of chunks and the k-th chunk
Min(a, b) == IF a < b THEN a ELSE b
NumChunks(recs) == (Len(recs) + chunk_size - 1) \div chunk_size
ChunkFrom(k) == (k - 1) * chunk_size + 1
ChunkTo(recs, k) == Min(k * chunk_size, Len(recs))
Chunk(recs, k) == SubSeq(recs, ChunkFrom(k), ChunkTo(recs, k))

\* the rows the transaction of chunk k attempts, as indices into the records
\* import_refs was given: `for row in records`
TxRows(recs, k) == [i \in 1..Len(recs) |-> i]

\* itertools group_by on the account: the last index of the run of equal
\* accounts that starts at index from
RECURSIVE GroupEnd(_, _)
GroupEnd(recs, from) ==
    IF from < Len(recs) /\ recs[from + 1].account = recs[from].account
    THEN GroupEnd(recs, from + 1)
    ELSE from

\* `.filter(|r| r.id > max as u64)` over the rows of the group
ResumeFilter(rows, m) == SelectSeq(rows, LAMBDA r : GreaterAsU64(r.id, m))

(***************************************************************************)
(* State.                                                                  *)
(***************************************************************************)
VARIABLES
    \* the import process
    pc,          \* where the process is
    source,      \* config.source: "File" or "Directory"
    options,     \* config.load_options: "All" or "New"
    table,       \* the committed rows of the target table
    file,        \* the path import_file is working on
    n_entries,   \* directory mode: the number of entries read_dir yields
    entry,       \* directory mode: the index of the current entry
    records,     \* read_file: the records decoded so far / the result
    bad_rows,    \* read_file: the skip counter
    row_i,       \* read_file: the next data row of the reader
    group,       \* load_new_rows: [from, to], the current group in records
    max,         \* load_new_rows: the resume point of the current group
    resolved,    \* load_new_rows: how the resume point query of the group ended
    to_import,   \* import_refs: its `records` argument
    chunk_i,     \* import_refs: the number of the current chunk
    rec_i,       \* import_refs: the position of the inner loop
    tx,          \* the transaction of the current chunk
    result,      \* the value import_refs / import_file returned last
    exit_status, \* -1 while running, then the exit status of the process
    \* history (not read by the program)
    failures,    \* the kinds of failure this run has met
    attempted,   \* directory mode: per entry, the import_file calls made
    results,     \* directory mode: per finished entry, what import_file returned
    attempts,    \* per record of to_import, the inserts attempted in this call
    call_table,  \* the table when import_refs was called
    handed,      \* the records handed to import_refs by this import_file call
    start_table, \* the table when this invocation started
    run,         \* the number of this invocation
    prev,        \* the table and outcome the previous invocation ended with
    \* the currency codec
    cpc, text, denoted, parsed, shown

pvars == <<pc, source, options, table, file, n_entries, entry, records, bad_rows,
           row_i, group, max, resolved, to_import, chunk_i, rec_i, tx, result, exit_status,
           failures, attempted, results, attempts, call_table, handed, start_table,
           run, prev>>
cvars == <<cpc, text, denoted, parsed, shown>>
vars == <<pvars, cvars>>

dirvars == <<n_entries, entry, attempted, results>>
readvars == <<records, bad_rows, row_i>>
newvars == <<group, max, resolved>>
impvars == <<to_import, chunk_i, rec_i, tx, attempts, call_table, handed>>
runvars == <<run, prev, start_table>>

NoTx == [state |-> "none", aborted |-> FALSE, pending |-> <<>>, failed |-> {},
         attempts |-> 0]
NotResolved == [outcome |-> "none", rows |-> 0, db_error |-> FALSE, handed |-> FALSE]
NoFile == [readable |-> FALSE, rows |-> <<>>]

(***************************************************************************)
(* The import process.                                                     *)
(***************************************************************************)
Init ==
    /\ pc = "parse_args"
    /\ source \in {"File", "Directory"}
    /\ options \in {"All", "New"}
    /\ table \in InitTables
    /\ file \in IF source = "File" THEN Files ELSE {NoFile}
    /\ n_entries = 0
    /\ entry = 0
    /\ records = <<>>
    /\ bad_rows = 0
    /\ row_i = 0
    /\ group = [from |-> 0, to |-> 0]
    /\ max = 0
    /\ resolved = NotResolved
    /\ to_import = <<>>
    /\ chunk_i = 0
    /\ rec_i = 0
    /\ tx = NoTx
    /\ result = "none"
    /\ exit_status = -1
    /\ failures = {}
    /\ attempted = [i \in 1..MaxEntries |-> 0]
    /\ results = <<>>
    /\ attempts = <<>>
    /\ call_table = <<>>
    /\ handed = <<>>
    /\ start_table = table
    /\ run = 1
    /\ prev = [table |-> <<>>, status |-> -1]
    /\ cpc = "idle"
    /\ text = <<>>
    /\ denoted = [defined |-> FALSE, cents |-> 0]
    /\ parsed = [ok |-> FALSE, whole |-> 0, digits |-> 0]
    /\ shown = <<>>

\* the process ends with this status
Exit(status) ==
    /\ pc' = "exit"
    /\ exit_status' = status

\* main: config::parse_args() returns a Config or a ConfigError
main_parse_args ==
    /\ pc = "parse_args"
    /\ \/ /\ pc' = "connect"
          /\ UNCHANGED <<exit_status, failures>>
       \/ /\ Exit(1)
          /\ failures' = failures \cup {"config"}
    /\ UNCHANGED <<source, options, table, file, dirvars, readvars, newvars,
                   impvars, result, runvars, cvars>>

\* main: db::connect returns the pool or DatabaseError::ConnectionError
main_connect ==
    /\ pc = "connect"
    /\ \/ /\ pc' = "init"
          /\ UNCHANGED <<exit_status, failures>>
       \/ /\ Exit(1)
          /\ failures' = failures \cup {"connect"}
    /\ UNCHANGED <<source, options, table, file, dirvars, readvars, newvars,
                   impvars, result, runvars, cvars>>

\* main: `if config.database.is_init()` db::init, whose error ends the process
main_init ==
    /\ pc = "init"
    /\ \/ /\ pc' = "dispatch"
          /\ UNCHANGED <<exit_status, failures>>
       \/ /\ Exit(1)
          /\ failures' = failures \cup {"init"}
    /\ UNCHANGED <<source, options, table, file, dirvars, readvars, newvars,
                   impvars, result, runvars, cvars>>

\* main: `match config.source`
main_dispatch ==
    /\ pc = "dispatch"
    /\ pc' = IF source = "File" THEN "read_file" ELSE "read_dir"
    /\ UNCHANGED <<source, options, table, file, dirvars, readvars, newvars,
                   impvars, result, exit_status, failures, runvars, cvars>>

\* import_directory: `std::fs::read_dir(f)?`; an error goes up through main's `?`
import_directory_read_dir ==
    /\ pc = "read_dir"
    /\ \/ /\ \E n \in 0..MaxEntries : n_entries' = n
          /\ pc' = "dir_loop"
          /\ UNCHANGED <<exit_status, failures>>
       \/ /\ Exit(1)
          /\ failures' = failures \cup {"read_dir"}
          /\ UNCHANGED n_entries
    /\ UNCHANGED <<source, options, table, file, entry, attempted, results, readvars,
                   newvars, impvars, result, runvars, cvars>>

\* import_directory: `for entry in paths.flatten()`: the next entry goes to
\* import_file; after the last one import_directory returns Ok(()) and so does main
import_directory_loop ==
    /\ pc = "dir_loop"
    /\ \/ /\ entry < n_entries
          /\ entry' = entry + 1
          /\ \E f \in DirFiles : file' = f
          /\ attempted' = [attempted EXCEPT ![entry + 1] = @ + 1]
          /\ pc' = "read_file"
          /\ UNCHANGED exit_status
       \/ /\ entry >= n_entries
          /\ Exit(0)
          /\ UNCHANGED <<entry, file, attempted>>
    /\ UNCHANGED <<source, options, table, n_entries, results, readvars, newvars,
                   impvars, result, failures, runvars, cvars>>

\* read_file: canonicalize and ReaderBuilder::from_path, either of which may
\* fail (`?`); import_file then returns that error
read_file_open ==
    /\ pc = "read_file"
    /\ \/ /\ file.readable
          /\ records' = <<>>
          /\ bad_rows' = 0
          /\ row_i' = 1
          /\ pc' = "read_rows"
          /\ UNCHANGED <<result, failures>>
       \/ /\ ~file.readable
          /\ result' = "Err"
          /\ failures' = failures \cup {"file_read"}
          /\ pc' = "import_file_ret"
          /\ UNCHANGED readvars
    /\ UNCHANGED <<source, options, table, file, dirvars, newvars, impvars,
                   exit_status, runvars, cvars>>

\* read_file with a loop that ends at the first row it cannot decode
read_file_row_abort ==
    /\ pc = "read_rows"
    /\ row_i <= Len(file.rows)
    /\ LET d == Deserialize(file.rows[row_i]) IN
       \/ /\ d.ok
          /\ records' = Append(records, [account |-> d.account, id |-> d.id,
                                         amount |-> d.amount, valid |-> d.valid])
          /\ row_i' = row_i + 1
          /\ UNCHANGED <<bad_rows, failures>>
       \/ /\ ~d.ok
          /\ bad_rows' = bad_rows + 1
          /\ failures' = failures \cup {"row_skipped"}
          /\ row_i' = Len(file.rows) + 1
          /\ UNCHANGED records
    /\ UNCHANGED <<pc, source, options, table, file, dirvars, newvars, impvars,
                   result, exit_status, runvars, cvars>>

\* read_file: one turn of `for result in reader.deserialize::<CsvRecord>()`
read_file_row ==
    /\ pc = "read_rows"
    /\ row_i <= Len(file.rows)
    /\ LET d == Deserialize(file.rows[row_i]) IN
       \/ /\ d.ok
          /\ records' = Append(records, [account |-> d.account, id |-> d.id,
                                         amount |-> d.amount, valid |-> d.valid])
          /\ UNCHANGED <<bad_rows, failures>>
       \/ /\ ~d.ok
          /\ bad_rows' = bad_rows + 1
          /\ failures' = failures \cup {"row_skipped"}
          /\ UNCHANGED records
    /\ row_i' = row_i + 1
    /\ UNCHANGED <<pc, source, options, table, file, dirvars, newvars, impvars,
                   result, exit_status, runvars, cvars>>

\* read_file: the reader is exhausted, `Ok(records)`; import_file calls load_rows
read_file_done ==
    /\ pc = "read_rows"
    /\ row_i > Len(file.rows)
    /\ pc' = "load_rows"
    /\ UNCHANGED <<source, options, table, file, dirvars, readvars, newvars, impvars,
                   result, exit_status, failures, runvars, cvars>>

\* the entry of import_refs with these records
CallImportRefs(recs) ==
    /\ to_import' = recs
    /\ chunk_i' = 1
    /\ rec_i' = 0
    /\ tx' = NoTx
    /\ attempts' = [i \in 1..Len(recs) |-> 0]
    /\ call_table' = table
    /\ handed' = handed \o recs
    /\ pc' = "begin"

\* load_rows: `match options`: db::import (which hands every record to
\* import_refs) or load_new_rows
load_rows ==
    /\ pc = "load_rows"
    /\ \/ /\ options = "All"
          /\ CallImportRefs(records)
          /\ UNCHANGED <<group, resolved>>
       \/ /\ options = "New"
          /\ group' = [from |-> 0, to |-> 0]
          /\ resolved' = NotResolved
          /\ pc' = "group"
          /\ UNCHANGED impvars
    /\ UNCHANGED <<source, options, table, file, dirvars, readvars, max, result,
                   exit_status, failures, runvars, cvars>>

\* load_new_rows: the next (account, group) of group_by, or the end of the
\* loop and `Ok(())`, which load_rows and import_file pass on
load_new_rows_group ==
    /\ pc = "group"
    /\ \/ /\ group.to < Len(records)
          /\ group' = [from |-> group.to + 1, to |-> GroupEnd(records, group.to + 1)]
          /\ pc' = "select_max"
          /\ UNCHANGED result
       \/ /\ group.to >= Len(records)
          /\ result' = "Ok"
          /\ pc' = "import_file_ret"
          /\ UNCHANGED group
    /\ resolved' = NotResolved
    /\ UNCHANGED <<source, options, table, file, dirvars, readvars, max, impvars,
                   exit_status, failures, runvars, cvars>>

\* select_max_tx_for_account without its WHERE clause: the maximum over
\* the rows of every account
select_max_tx_any_account(t, a) ==
    IF AccountRows(t, a) = {}
    THEN [ok |-> FALSE, max |-> 0]
    ELSE [ok |-> TRUE,
          max |-> CHOOSE m \in {r.tx_id : r \in RowsOf(t)} :
                      \A r \in RowsOf(t) : r.tx_id <= m]

\* db::select_max_tx_for_account once the query has run: fetch_one decodes
\* the one row into (i32,). MAX over no rows is NULL, which does not decode
\* into an i32: the function returns Err. Otherwise Ok(max).
select_max_tx_for_account(t, a) ==
    IF AccountRows(t, a) = {}
    THEN [ok |-> FALSE, max |-> 0]
    ELSE [ok |-> TRUE, max |-> MaxTxId(t, a)]

\* load_new_rows: the body of the loop for the current group: the resume
\* point query (`if let Ok(max)`: an Err skips the group), the filter, and
\* the call of import_refs when something is left
load_new_rows_resolve ==
    /\ pc = "select_max"
    /\ LET account == records[group.from].account
           account_rows == SubSeq(records, group.from, group.to)
           n == Cardinality(AccountRows(table, account))
           r == select_max_tx_for_account(table, account)
           to == ResumeFilter(account_rows, r.max)
       IN
       \/ \* the query itself fails (connection, server)
          /\ resolved' = [outcome |-> "Err", rows |-> n, db_error |-> TRUE,
                          handed |-> FALSE]
          /\ failures' = failures \cup {"select_max"}
          /\ pc' = "group"
          /\ UNCHANGED <<max, impvars>>
       \/ /\ ~r.ok
          /\ resolved' = [outcome |-> "Err", rows |-> n, db_error |-> FALSE,
                          handed |-> FALSE]
          /\ pc' = "group"
          /\ UNCHANGED <<max, impvars, failures>>
       \/ /\ r.ok
          /\ max' = r.max
          /\ resolved' = [outcome |-> "Ok", rows |-> n, db_error |-> FALSE,
                          handed |-> to # <<>>]
          /\ IF to # <<>>
             THEN CallImportRefs(to)
             ELSE pc' = "group" /\ UNCHANGED impvars
          /\ UNCHANGED failures
    /\ UNCHANGED <<source, options, table, file, dirvars, readvars, group, result,
                   exit_status, runvars, cvars>>

\* import_refs: `for chunk in records.chunks(chunk_size)`: `pool.begin().await?`
\* for the next chunk, or `Ok(())` after the last
import_refs_begin ==
    /\ pc = "begin"
    /\ \/ /\ chunk_i <= NumChunks(to_import)
          /\ tx' = [state |-> "open", aborted |-> FALSE, pending |-> <<>>,
                    failed |-> {}, attempts |-> 0]
          /\ rec_i' = 1
          /\ pc' = "insert"
          /\ UNCHANGED <<result, failures>>
       \/ /\ chunk_i <= NumChunks(to_import)
          /\ tx' = [NoTx EXCEPT !.state = "failed"]
          /\ result' = "Err"
          /\ failures' = failures \cup {"chunk_tx"}
          /\ pc' = "import_refs_ret"
          /\ UNCHANGED rec_i
       \/ /\ chunk_i > NumChunks(to_import)
          /\ result' = "Ok"
          /\ pc' = "import_refs_ret"
          /\ UNCHANGED <<tx, rec_i, failures>>
    /\ UNCHANGED <<source, options, table, file, dirvars, readvars, newvars,
                   to_import, chunk_i, attempts, call_table, handed, exit_status, runvars,
                   cvars>>

\* the INSERT without its ON CONFLICT clause on a table without a key
PlainInsert(committed, pending, r) == Append(pending, r)

\* INSERT ... ON CONFLICT DO NOTHING of row r in a transaction that sees the
\* committed rows and its own pending ones: the pending rows afterwards
OnConflictDoNothing(committed, pending, r) ==
    IF \E x \in RowsOf(committed \o pending) : NaturalKey(x) = NaturalKey(r)
    THEN pending
    ELSE Append(pending, r)

\* insert_single_row, one turn of the inner loop of import_refs. The
\* statement runs in the transaction of the chunk. PostgreSQL rejects every
\* statement of a transaction in which a statement has failed (the
\* transaction is aborted until it ends); a rejected or failed statement is
\* logged and insert_single_row returns Ok(()) all the same.
insert_single_row ==
    /\ pc = "insert"
    /\ rec_i <= Len(TxRows(to_import, chunk_i))
    /\ LET i == TxRows(to_import, chunk_i)[rec_i]
           row == to_import[i]
       IN
       /\ attempts' = [attempts EXCEPT ![i] = @ + 1]
       /\ \/ /\ tx.aborted
             /\ tx' = [tx EXCEPT !.attempts = @ + 1]
             /\ failures' = failures \cup {"row_insert"}
          \/ /\ ~tx.aborted
             /\ ~row.valid
             /\ tx' = [tx EXCEPT !.attempts = @ + 1, !.aborted = TRUE,
                                 !.failed = @ \cup {i}]
             /\ failures' = failures \cup {"row_insert"}
          \/ /\ ~tx.aborted
             /\ row.valid
             /\ tx' = [tx EXCEPT !.attempts = @ + 1,
                                 !.pending = OnConflictDoNothing(table, @, TableRow(row))]
             /\ UNCHANGED failures
    /\ rec_i' = rec_i + 1
    /\ UNCHANGED <<pc, source, options, table, file, dirvars, readvars, newvars,
                   to_import, chunk_i, call_table, handed, result, exit_status, runvars,
                   cvars>>

\* what COMMIT leaves in the table: the pending rows, or nothing new when
\* the transaction is aborted (the server answers COMMIT with a rollback)
Committed(committed, t) == IF t.aborted THEN committed ELSE committed \o t.pending

\* import_refs: `tx.commit().await?` after the inner loop
import_refs_commit ==
    /\ pc = "insert"
    /\ rec_i > Len(TxRows(to_import, chunk_i))
    /\ \/ /\ table' = Committed(table, tx)
          /\ tx' = [tx EXCEPT !.state = "committed"]
          /\ chunk_i' = chunk_i + 1
          /\ pc' = "begin"
          /\ UNCHANGED <<result, failures>>
       \/ /\ tx' = [tx EXCEPT !.state = "failed"]
          /\ result' = "Err"
          /\ failures' = failures \cup {"chunk_tx"}
          /\ pc' = "import_refs_ret"
          /\ UNCHANGED <<table, chunk_i>>
    /\ UNCHANGED <<source, options, file, dirvars, readvars, newvars, to_import,
                   rec_i, attempts, call_table, handed, exit_status, runvars, cvars>>

\* the return of import_refs to its caller: db::import and load_rows pass
\* the value on (`?`), load_new_rows passes an Err on (`?`) and goes on with
\* the next group after an Ok
import_refs_return ==
    /\ pc = "import_refs_ret"
    /\ pc' = IF options = "New" /\ result = "Ok" THEN "group" ELSE "import_file_ret"
    /\ UNCHANGED <<source, options, table, file, dirvars, readvars, newvars, impvars,
                   result, exit_status, failures, runvars, cvars>>

\* the locals of import_file and of what it calls are dropped
ForgetLocals ==
    /\ records' = <<>>
    /\ bad_rows' = 0
    /\ row_i' = 0
    /\ group' = [from |-> 0, to |-> 0]
    /\ max' = 0
    /\ resolved' = NotResolved
    /\ to_import' = <<>>
    /\ chunk_i' = 0
    /\ rec_i' = 0
    /\ tx' = NoTx
    /\ attempts' = <<>>
    /\ call_table' = <<>>
    /\ handed' = <<>>

\* import_file's return with import_directory passing an Err on (`?`)
import_file_return_propagate ==
    /\ pc = "import_file_ret"
    /\ \/ /\ source = "File"
          /\ Exit(IF result = "Err" THEN 1 ELSE 0)
          /\ UNCHANGED <<results, readvars, newvars, impvars>>
       \/ /\ source = "Directory"
          /\ results' = Append(results, [value |-> result, readable |-> file.readable,
                                         tx_failed |-> tx.state = "failed"])
          /\ IF result = "Err"
             THEN Exit(1)
             ELSE pc' = "dir_loop" /\ UNCHANGED exit_status
          /\ ForgetLocals
    /\ UNCHANGED <<source, options, table, file, n_entries, entry, attempted,
                   result, failures, runvars, cvars>>

\* import_file's return with main dropping the value (`let _ =`)
import_file_return_swallow ==
    /\ pc = "import_file_ret"
    /\ \/ /\ source = "File"
          /\ Exit(0)
          /\ UNCHANGED <<results, readvars, newvars, impvars>>
       \/ /\ source = "Directory"
          /\ results' = Append(results, [value |-> result, readable |-> file.readable,
                                         tx_failed |-> tx.state = "failed"])
          /\ pc' = "dir_loop"
          /\ ForgetLocals
          /\ UNCHANGED exit_status
    /\ UNCHANGED <<source, options, table, file, n_entries, entry, attempted,
                   result, failures, runvars, cvars>>

\* the return of import_file: main passes an Err on and exits non-zero
\* (`import_file(..).await?`), import_directory drops the value
\* (`let _ = import_file(..).await`) and goes on with the next entry
import_file_return ==
    /\ pc = "import_file_ret"
    /\ \/ /\ source = "File"
          /\ Exit(IF result = "Err" THEN 1 ELSE 0)
          /\ UNCHANGED <<results, readvars, newvars, impvars>>
       \/ /\ source = "Directory"
          /\ results' = Append(results, [value |-> result, readable |-> file.readable,
                                         tx_failed |-> tx.state = "failed"])
          /\ pc' = "dir_loop"
          /\ ForgetLocals
          /\ UNCHANGED exit_status
    /\ UNCHANGED <<source, options, table, file, n_entries, entry, attempted,
                   result, failures, runvars, cvars>>

\* the re-import: after a run in Full mode the user runs the process a
\* second time on the same file with the same options
Rerun ==
    /\ pc = "exit"
    /\ source = "File"
    /\ options = "All"
    /\ run = 1
    /\ run' = run + 1
    /\ prev' = [table |-> table, status |-> exit_status]
    /\ start_table' = table
    /\ pc' = "parse_args"
    /\ ForgetLocals
    /\ result' = "none"
    /\ exit_status' = -1
    /\ failures' = {}
    /\ UNCHANGED <<source, options, table, file, dirvars, cvars>>

Next ==
    \/ main_parse_args
    \/ main_connect
    \/ main_init
    \/ main_dispatch
    \/ import_directory_read_dir
    \/ import_directory_loop
    \/ read_file_open
    \/ read_file_row
    \/ read_file_done
    \/ load_rows
    \/ load_new_rows_group
    \/ load_new_rows_resolve
    \/ import_refs_begin
    \/ insert_single_row
    \/ import_refs_commit
    \/ import_refs_return
    \/ import_file_return
    \/ Rerun

Spec == Init /\ [][Next]_vars

(***************************************************************************)
(* The currency codec on its own: a text is parsed and, when that          *)
(* succeeds, the value is displayed.                                       *)
(***************************************************************************)
\* the digits the generated texts are made of
TextDigits == {"0", "1", "9"}
WholeDigits == UNION {[1..n -> TextDigits] : n \in 1..MaxWholeLen}
FracDigits == UNION {[1..n -> {"0", "5"}] : n \in 1..MaxFracLen}

\* digits with a thousands separator before the last three of them
Grouped(ds) ==
    IF Len(ds) > 3
    THEN SubSeq(ds, 1, Len(ds) - 3) \o <<",">> \o SubSeq(ds, Len(ds) - 2, Len(ds))
    ELSE ds

\* a currency text with a decimal point: optional symbol, optional
\* accounting parentheses, digits (grouped or not), point, fractional digits
Compose(symbol, paren, grouped, ds, fs) ==
    (IF symbol THEN <<"$">> ELSE <<>>)
        \o (IF paren THEN <<"(">> ELSE <<>>)
        \o (IF grouped THEN Grouped(ds) ELSE ds)
        \o <<".">> \o fs
        \o (IF paren THEN <<")">> ELSE <<>>)

\* the number a digit sequence writes, read from the left
RECURSIVE DigitsValue(_)
DigitsValue(ds) ==
    IF ds = <<>> THEN 0
    ELSE DigitsValue(SubSeq(ds, 1, Len(ds) - 1)) * 10 + to_digit(ds[Len(ds)])

\* the amount, in hundredths, that a composed text with a two-digit
\* fraction denotes
Amount(paren, ds, fs) ==
    (IF paren THEN -1 ELSE 1) * (DigitsValue(ds) * 100 + DigitsValue(fs))

\* the canonical rendering of an amount in hundredths: sign, whole part,
\* point, two fractional digits
Canonical(cents) ==
    LET abs == IF cents < 0 THEN -cents ELSE cents IN
    (IF cents < 0 THEN <<"-">> ELSE <<>>)
        \o NatToText(abs \div 100) \o <<".">> \o Pad02(abs % 100)

\* texts without a decimal point, and one with a non-ASCII numeric character
OtherTexts == {<<"$", "-">>, <<" ", "$", " ", "-", " ">>, <<"1", "2">>, <<>>,
               <<"$">>, <<"^2", ".", "^2", "5">>}

\* the process, not running
Idle ==
    /\ pc = "idle"
    /\ source = "File"
    /\ options = "All"
    /\ table = <<>>
    /\ file = NoFile
    /\ n_entries = 0
    /\ entry = 0
    /\ records = <<>>
    /\ bad_rows = 0
    /\ row_i = 0
    /\ group = [from |-> 0, to |-> 0]
    /\ max = 0
    /\ resolved = NotResolved
    /\ to_import = <<>>
    /\ chunk_i = 0
    /\ rec_i = 0
    /\ tx = NoTx
    /\ result = "none"
    /\ exit_status = -1
    /\ failures = {}
    /\ attempted = [i \in 1..MaxEntries |-> 0]
    /\ results = <<>>
    /\ attempts = <<>>
    /\ call_table = <<>>
    /\ handed = <<>>
    /\ start_table = table
    /\ run = 1
    /\ prev = [table |-> <<>>, status |-> -1]

InitCurrency ==
    /\ Idle
    /\ cpc = "parse"
    /\ \/ \E symbol \in BOOLEAN, paren \in BOOLEAN, grouped \in BOOLEAN,
             ds \in WholeDigits, fs \in FracDigits :
             /\ text = Compose(symbol, paren, grouped, ds, fs)
             /\ denoted = IF Len(fs) = 2
                          THEN [defined |-> TRUE, cents |-> Amount(paren, ds, fs)]
                          ELSE [defined |-> FALSE, cents |-> 0]
       \/ /\ text \in OtherTexts
          /\ denoted = [defined |-> FALSE, cents |-> 0]
    /\ parsed = [ok |-> FALSE, whole |-> 0, digits |-> 0]
    /\ shown = <<>>

\* Currency::from_str(text)
currency_parse ==
    /\ cpc = "parse"
    /\ parsed' = from_str(text)
    /\ cpc' = IF parsed'.ok THEN "display" ELSE "error"
    /\ UNCHANGED <<text, denoted, shown, pvars>>

\* the value's to_string()
currency_display ==
    /\ cpc = "display"
    /\ shown' = fmt(parsed)
    /\ cpc' = "done"
    /\ UNCHANGED <<text, denoted, parsed, pvars>>

NextCurrency ==
    \/ currency_parse
    \/ currency_display

SpecCurrency == InitCurrency /\ [][NextCurrency]_vars

(***************************************************************************)
(* The claims.                                                             *)
(***************************************************************************)
\* import_refs is running, or has just returned
InImportRefs == pc \in {"begin", "insert", "import_refs_ret"}

\* the keys of the rows of a table
KeysOf(t) == {NaturalKey(r) : r \in RowsOf(t)}

\* C1: over one call of the batch importer no transaction attempts more
\* than chunk_size (50) inserts, no record is attempted more than once, and
\* when the call returns Ok every record has been attempted exactly once.
C1_OneAttemptPerRecord ==
    InImportRefs =>
        /\ tx.attempts <= chunk_size
        /\ \A i \in 1..Len(to_import) : attempts[i] <= 1
        /\ (pc = "import_refs_ret" /\ result = "Ok") =>
               \A i \in 1..Len(to_import) : attempts[i] = 1

\* C2: after the commit of the transaction of a chunk in which exactly one
\* row cannot be inserted (for a reason other than a key conflict), every
\* other row of the chunk is in the table.
C2_OtherRowsOfChunkCommitted ==
    (pc = "begin" /\ tx.state = "committed") =>
        LET k == chunk_i - 1
            rows == ChunkFrom(k)..ChunkTo(to_import, k)
            bad == {i \in rows : ~to_import[i].valid}
        IN  Cardinality(bad) = 1 =>
                \A i \in rows \ bad :
                    NaturalKey(TableRow(to_import[i])) \in KeysOf(table)

\* C3: when the batch importer returns the error of opening or committing
\* the transaction of chunk k, no record of chunk k+1 or later has been
\* persisted by this call: the key of such a record is in the table only if
\* it was there at the call or is also the key of a record of chunks 1..k.
C3_NothingBeyondFailedChunk ==
    (pc = "import_refs_ret" /\ result = "Err") =>
        \A i \in (ChunkTo(to_import, chunk_i) + 1)..Len(to_import) :
            NaturalKey(TableRow(to_import[i])) \in KeysOf(table) =>
                \/ NaturalKey(TableRow(to_import[i])) \in KeysOf(call_table)
                \/ \E j \in 1..ChunkTo(to_import, chunk_i) :
                       NaturalKey(TableRow(to_import[j])) =
                           NaturalKey(TableRow(to_import[i]))

\* C6: the resume point query for an account without rows in the table
\* does not end in an error (unless the database fails), and the records of
\* the account's group are all handed to the batch importer.
C6_NewAccountIsImported ==
    (pc \in {"group", "begin", "insert", "import_refs_ret"}
        /\ resolved.outcome # "none" /\ resolved.rows = 0 /\ ~resolved.db_error) =>
        /\ resolved.outcome = "Ok"
        /\ resolved.handed
        /\ to_import = SubSeq(records, group.from, group.to)

\* C10: for a well-formed currency text with a decimal point and two
\* fractional digits, parsing and then displaying yields the canonical
\* rendering of the amount the text denotes.
C10_ParseDisplayCanonical ==
    (cpc = "done" /\ denoted.defined) => shown = Canonical(denoted.cents)

\* C4: when a run in Full mode that reported no error is followed by a run
\* on the same file, the second run leaves the table as the first left it
\* (the same rows, each unchanged, and as many), and reports no error
\* unless the configuration, the connection, the schema initialisation or
\* a chunk transaction fails in it.
C4_ReimportIdempotent ==
    (run > 1 /\ options = "All" /\ prev.status = 0) =>
        /\ table = prev.table
        /\ (pc = "exit" /\ failures \cap {"config", "connect", "init", "chunk_tx"} = {})
               => exit_status = 0

\* C4's case: the second run has attempted and committed its inserts, the
\* table holds a row the first run inserted and a row from before the first
\* run whose key the file has too.
C4_Witness ==
    /\ run = 2 /\ pc = "exit" /\ options = "All"
    /\ prev.status = 0 /\ exit_status = 0
    /\ tx.state = "committed" /\ tx.attempts > 0 /\ ~tx.aborted
    /\ \E r \in RowsOf(table) : r.amount # OldAmount
    /\ \E r \in RowsOf(table) :
          /\ r.amount = OldAmount
          /\ \E i \in 1..Len(records) : NaturalKey(TableRow(records[i])) = NaturalKey(r)

\* the records of the current group of load_new_rows
GroupRows == SubSeq(records, group.from, group.to)

\* C5: in IncrementalNew mode, when the resume point of the group's account
\* a has been found, the records handed to the batch importer are exactly
\* the group's records with an id above m, the maximum id persisted for a
\* when the importer is called (none is handed when there is none): no
\* record with an id <= m is handed on, and the ids persisted for the other
\* accounts play no part.
C5_OnlyAboveOwnResumePoint ==
    (pc \in {"group", "begin", "insert", "import_refs_ret"} /\ options = "New"
        /\ resolved.outcome = "Ok" /\ resolved.rows > 0) =>
        LET a == records[group.from].account
            m == MaxTxId(IF resolved.handed THEN call_table ELSE table, a)
            expected == SelectSeq(GroupRows, LAMBDA r : r.id > m)
        IN  /\ resolved.handed =>
                   /\ to_import = expected
                   /\ \A i \in 1..Len(to_import) :
                          to_import[i].account = a /\ to_import[i].id > m
            /\ ~resolved.handed => (pc = "group" /\ expected = <<>>)

\* C5's case: a group of which some records are handed on and some are
\* dropped, while another account's maximum would have dropped them all.
C5_Witness ==
    /\ pc = "begin" /\ chunk_i = 1 /\ options = "New" /\ resolved.handed
    /\ to_import # <<>>
    /\ Len(to_import) < Len(GroupRows)
    /\ \E b \in Accounts \ {records[group.from].account} :
          /\ AccountRows(table, b) # {}
          /\ \A i \in 1..Len(to_import) : to_import[i].id <= MaxTxId(table, b)

\* C7: in directory mode the entries are attempted one after the other,
\* each exactly once; unless the run ends before the loop (configuration,
\* connection, schema initialisation, read_dir) every entry has been
\* attempted when the process ends; and an entry's import succeeds exactly
\* when its file can be read and no chunk transaction fails in it, whatever
\* happened to the entries before it.
C7_DirectoryContinues ==
    source = "Directory" =>
        /\ \A i \in 1..MaxEntries : attempted[i] = IF i <= entry THEN 1 ELSE 0
        /\ (pc = "exit" /\ failures \cap {"config", "connect", "init", "read_dir"} = {})
               => (entry = n_entries /\ Len(results) = n_entries)
        /\ \A i \in 1..Len(results) :
               results[i].value = "Ok" <=> (results[i].readable /\ ~results[i].tx_failed)

\* C7's case: the first entry's import failed, the second entry was
\* imported and its row is in the table.
C7_Witness ==
    /\ source = "Directory" /\ pc = "exit"
    /\ Len(results) = 2
    /\ results[1].value = "Err"
    /\ results[2].value = "Ok"
    /\ attempted[1] = 1 /\ attempted[2] = 1
    /\ \E r \in RowsOf(table) : r.amount # OldAmount

\* C8 as claimed: a run that meets no failure other than skipped rows, a
\* file that cannot be read, row insert failures and chunk transaction
\* failures ends with status zero, in single-file mode as in directory
\* mode.
C8_ZeroUnlessConnectionOrConfig ==
    (pc = "exit"
        /\ failures \subseteq {"row_skipped", "file_read", "row_insert", "chunk_tx"})
        => exit_status = 0

\* C8 as amended: the process ends with a non-zero status exactly when the
\* configuration is invalid, the connection or the schema initialisation
\* fails, the directory cannot be listed or, in single-file mode, the file
\* cannot be read or a chunk transaction fails.
C8_ExitStatus ==
    pc = "exit" =>
        /\ exit_status \in {0, 1}
        /\ exit_status = 1 <=>
               \/ failures \cap {"config", "connect", "init", "read_dir"} # {}
               \/ source = "File" /\ failures \cap {"file_read", "chunk_tx"} # {}

\* C8's case: a single-file run whose only failure is a chunk transaction
\* error, ended with status 1.
C8_Witness ==
    /\ pc = "exit" /\ source = "File"
    /\ failures = {"chunk_tx"}
    /\ exit_status = 1

\* the rows the reader has returned so far
RowsRead == SubSeq(file.rows, 1, row_i - 1)

\* C9: while read_file reads and when it returns, the records are the rows
\* read so far that decode, in input order, the skip counter is the number
\* of rows read that do not decode, and read_file returns only after the
\* last row: decoded + skipped = the number of data rows.
C9_ReadFileSkipsBadRows ==
    pc \in {"read_rows", "load_rows"} =>
        LET good == SelectSeq(RowsRead, LAMBDA r : from_str(r.amount).ok) IN
        /\ Len(records) = Len(good)
        /\ \A i \in 1..Len(good) :
               /\ records[i].account = good[i].account
               /\ records[i].id = good[i].id
        /\ bad_rows = Len(RowsRead) - Len(good)
        /\ pc = "load_rows" =>
               /\ row_i = Len(file.rows) + 1
               /\ Len(records) + bad_rows = Len(file.rows)

\* C9's case: read_file has returned, a row that does not decode came
\* before one that does.
C9_Witness ==
    /\ pc = "load_rows"
    /\ bad_rows > 0
    /\ \E i, j \in 1..Len(file.rows) :
          /\ i < j
          /\ ~from_str(file.rows[i].amount).ok
          /\ from_str(file.rows[j].amount).ok
\* the parts of a currency text before and after its first decimal point
IntegerPortion(t) == IF PointAt(t) > 0 THEN SubSeq(t, 1, PointAt(t) - 1) ELSE <<>>
FractionalPortion(t) == IF PointAt(t) > 0 THEN SubSeq(t, PointAt(t) + 1, Len(t)) ELSE <<>>

\* the integer portion of the text contains an opening parenthesis
Parenthesized(t) == \E i \in 1..Len(IntegerPortion(t)) : IntegerPortion(t)[i] = "("

\* C11: a currency text whose integer portion contains an opening
\* parenthesis parses to a strictly negative whole part, whatever digits and
\* grouping characters the integer portion has (all-zero digits included).
C11_ParenthesizedIsNegative ==
    (cpc \in {"display", "done"} /\ Parenthesized(text)) => parsed.whole < 0

\* the magnitude the fraction loop of from_str scans from a text
ScannedFraction(t) ==
    ScanDigits(FractionalPortion(t), Len(FractionalPortion(t)),
               [digits |-> 0, magnitude |-> 1]).digits

\* C12: a parsed value has a fractional part in 0..99; for a fractional
\* portion of more than two digits it is the scanned magnitude modulo 100;
\* and the displayed text has exactly two digits after its decimal point.
C12_FractionInRange ==
    cpc = "done" =>
        /\ parsed.digits \in 0..99
        /\ Len(FractionalPortion(text)) > 2 =>
               parsed.digits = ScannedFraction(text) % 100
        /\ Len(FractionalPortion(shown)) = 2
\* record i of the file is new at the start of the run: its account had
\* rows in the table then, all with a smaller id
NewAtStart(i) ==
    /\ AccountRows(start_table, records[i].account) # {}
    /\ records[i].id > MaxTxId(start_table, records[i].account)

\* C13: when a single-file run in IncrementalNew mode that met no database
\* failure has gone through the file, every decoded record whose id is
\* above the maximum id persisted for its account at the start of the run
\* has been handed to the batch importer, in whatever order the records
\* are, contiguous per account or not.
C13_EveryNewRecordHanded ==
    (source = "File" /\ options = "New" /\ pc = "import_file_ret"
        /\ failures \cap {"select_max", "chunk_tx", "row_insert"} = {}) =>
        \A i \in 1..Len(records) :
            NewAtStart(i) => \E j \in 1..Len(handed) : handed[j] = records[i]
=============================================================================
